---- MODULE Spec2Model ----
(***************************************************************************)
(* A model of the IMDB conversational agent:                               *)
(*   - datastore_setup.py: get_structured_dataset, setup_databases,        *)
(*     GetDataStoreAssets (the one-time ETL and the startup of the store)  *)
(*   - toolbox.py: clean_sql_query, adaptive_structured_query_tool,        *)
(*     expand_semantic_query, adaptive_semantic_search_tool                *)
(*   - app.py: process_msg_chunks, main (the chat page and its history)    *)
(*                                                                         *)
(* Text is modelled by TLA+ strings (sequences of characters), so the      *)
(* textual operations of the code (replace, strip, lower, "in", join,      *)
(* regex extraction) are computed character by character.                  *)
(*                                                                         *)
(* Four specifications share the variables:                                *)
(*   SpecStartup  the import-time construction GetDataStoreAssets()        *)
(*   SpecTools    the two tools, invoked any number of times after it      *)
(*   SpecDataset  get_structured_dataset applied to data frames            *)
(*   SpecChat     the runs of main in one session                          *)
(***************************************************************************)
EXTENDS Integers, Sequences, FiniteSets, TLC

VARIABLES
    pc,          \* "boot" | "ready" | "failed" | "dataset" | "chat"
    fs_csv,      \* candidate CSV directory -> the CSV file there, or NoFile
    fs_db,       \* candidate SQLite directory -> movies.db there, or NoFile
    fs_index,    \* candidate FAISS directory -> movies.index there, or NoFile
    data_objs,   \* toolbox.data_objs: <<>> before startup, <<handle>> after
    boot_error,  \* the exception GetDataStoreAssets() raised, or "none"
    boot_log,    \* the [INFO] lines printed during setup, in order
    last,        \* the record of the tool invocation in progress, or NoCall
    ds,          \* the data frame given to / returned by get_structured_dataset
    st           \* Streamlit: session_state and what the last run of main did

vars ==
    <<pc, fs_csv, fs_db, fs_index, data_objs, boot_error, boot_log, last, ds,
      st>>

(***************************************************************************)
(* Bounds of the model.                                                    *)
(***************************************************************************)
MaxSqlFrags == 3      \* fragments in one generated SQL text
MaxResultRows == 2    \* rows in one SQL result set
MaxQueryFrags == 3    \* fragments in one semantic search query
MaxCsvRows == 2       \* rows in the source CSV

(***************************************************************************)
(* Python string operations.                                               *)
(***************************************************************************)
Range(f) == {f[i] : i \in DOMAIN f}

\* F applied to the value of x: x is evaluated once, as an assignment to a
\* local variable evaluates its right-hand side once.
Bind(x, F(_)) == CHOOSE r \in {F(v) : v \in {x}} : TRUE

CharAt(s, i) == SubSeq(s, i, i)

Whitespace == {" ", "\n", "\t"}

\* str.strip(): leading and trailing whitespace removed.
RECURSIVE LStrip(_)
LStrip(s) ==
    IF Len(s) > 0 /\ CharAt(s, 1) \in Whitespace
    THEN LStrip(SubSeq(s, 2, Len(s)))
    ELSE s

RECURSIVE RStrip(_)
RStrip(s) ==
    IF Len(s) > 0 /\ CharAt(s, Len(s)) \in Whitespace
    THEN RStrip(SubSeq(s, 1, Len(s) - 1))
    ELSE s

Strip(s) == RStrip(LStrip(s))

\* str.replace(old, new) for a non-empty old: one left-to-right pass over
\* non-overlapping occurrences; the result is not scanned again.
RECURSIVE Replace(_, _, _)
Replace(s, old, new) ==
    IF Len(s) < Len(old) THEN s
    ELSE IF SubSeq(s, 1, Len(old)) = old
         THEN new \o Replace(SubSeq(s, Len(old) + 1, Len(s)), old, new)
         ELSE CharAt(s, 1) \o Replace(SubSeq(s, 2, Len(s)), old, new)

\* "sub in s"
Contains(s, sub) ==
    \E i \in 1..(Len(s) - Len(sub) + 1) : SubSeq(s, i, i + Len(sub) - 1) = sub

UpperLetters == "ABCDEFGHIJKLMNOPQRSTUVWXYZ"
LowerLetters == "abcdefghijklmnopqrstuvwxyz"

LowerOf(c) ==
    IF \E i \in 1..26 : CharAt(UpperLetters, i) = c
    THEN CharAt(LowerLetters, CHOOSE i \in 1..26 : CharAt(UpperLetters, i) = c)
    ELSE c

\* str.lower()
RECURSIVE Lower(_)
Lower(s) ==
    IF Len(s) = 0 THEN s
    ELSE LowerOf(CharAt(s, 1)) \o Lower(SubSeq(s, 2, Len(s)))

\* sep.join(items)
RECURSIVE Join(_, _)
Join(sep, items) ==
    IF Len(items) = 0 THEN ""
    ELSE IF Len(items) = 1 THEN items[1]
    ELSE items[1] \o sep \o Join(sep, Tail(items))

\* All concatenations of at most n fragments of a pool.
RECURSIVE Concats(_, _)
Concats(pool, n) ==
    IF n = 0 THEN {""}
    ELSE LET shorter == Concats(pool, n - 1)
         IN  shorter \cup {s \o f : s \in shorter, f \in pool}

\* All sequences of at most n elements of S.
RECURSIVE SeqsUpTo(_, _)
SeqsUpTo(S, n) ==
    IF n = 0 THEN {<<>>}
    ELSE LET shorter == SeqsUpTo(S, n - 1)
         IN  shorter \cup {Append(q, x) : q \in shorter, x \in S}

(***************************************************************************)
(* JSON values returned by the tools (the argument of json.dumps).         *)
(***************************************************************************)
JsonArray(items) == [kind |-> "array", items |-> items]
JsonObject(fields) == [kind |-> "object", fields |-> fields]

(***************************************************************************)
(* toolbox.py: the structured query tool.                                  *)
(***************************************************************************)

\* The grave accent U+0060 of markdown code fences. The lexer of TLA+ does
\* not accept that character inside a string literal; "^" stands for it.
Backtick == "^"

Fence == Backtick \o Backtick \o Backtick

\* What the LLM may answer with (response.content): markdown fences, the
\* language tag, statements, blanks.
SqlFragments ==
    {Fence, "sql", "\n", "SELECT * FROM movies", "DROP TABLE mysql_tmp",
     "DROP TABLE movies"}

LlmSqlOutputs == Concats(SqlFragments, MaxSqlFrags)

\* generate_sql_query returns response.content stripped.
generate_sql_query(content) == Strip(content)

\* clean_sql_query: the emptiness test is on the argument, before the
\* replacements; an empty argument raises ValueError.
clean_sql_query(query) ==
    IF Len(query) > 0
    THEN [raised |-> "none",
          value  |-> Strip(Replace(Replace(query, Backtick, ""), "sql", ""))]
    ELSE [raised |-> "ValueError", value |-> ""]

(***************************************************************************)
(* datastore_setup.py: data frames.                                        *)
(*                                                                         *)
(* A CSV file is [cols, rows]: the header and, per row, the text of each   *)
(* field. A data frame is [cols, rows] with a cell per field:              *)
(*   NaN            a missing value                                        *)
(*   Str(s)         a string (object dtype)                                *)
(*   Num(n)         a number as parsed by pandas                           *)
(*   IntVal(n), FloatVal(n)  the value after astype(int) / astype(float)         *)
(***************************************************************************)
NaN == [t |-> "nan"]
Str(s) == [t |-> "str", v |-> s]
Num(n) == [t |-> "num", v |-> n]
IntVal(n) == [t |-> "int", v |-> n]
FloatVal(n) == [t |-> "float", v |-> n]

Digits == {"0", "1", "2", "3", "4", "5", "6", "7", "8", "9"}

DigitVal(c) ==
    CASE c = "0" -> 0 [] c = "1" -> 1 [] c = "2" -> 2 [] c = "3" -> 3
      [] c = "4" -> 4 [] c = "5" -> 5 [] c = "6" -> 6 [] c = "7" -> 7
      [] c = "8" -> 8 [] c = "9" -> 9

\* The text is a number pandas parses: here, a non-empty run of digits.
IsNumber(s) == Len(s) > 0 /\ \A i \in 1..Len(s) : CharAt(s, i) \in Digits

RECURSIVE StrToNat(_)
StrToNat(s) ==
    IF Len(s) = 0 THEN 0
    ELSE 10 * StrToNat(SubSeq(s, 1, Len(s) - 1)) + DigitVal(CharAt(s, Len(s)))

\* Field texts pd.read_csv reads as missing (among its default na_values).
NaStrings == {"", "NA", "N/A"}

\* A column's dtype is object when the frame has no rows or some cell is a
\* string; otherwise read_csv made it numeric (all missing: float64).
IsObjectColumn(df, col) ==
    \/ Len(df.rows) = 0
    \/ \E i \in 1..Len(df.rows) : df.rows[i][col].t = "str"

\* pd.read_csv(existing_csv_path)
read_csv(file) ==
    LET numeric(col) ==
            /\ Len(file.rows) > 0
            /\ \A i \in 1..Len(file.rows) :
                   file.rows[i][col] \in NaStrings \/ IsNumber(file.rows[i][col])
        cell(col, text) ==
            IF text \in NaStrings THEN NaN
            ELSE IF numeric(col) THEN Num(StrToNat(text))
            ELSE Str(text)
    IN  [cols |-> file.cols,
         rows |-> [i \in 1..Len(file.rows) |->
                      [col \in file.cols |-> cell(col, file.rows[i][col])]]]

float_cols == <<"IMDB_Rating", "Meta_score", "Gross">>
integer_cols == <<"Runtime", "No_of_Votes", "Released_Year">>

Sentinel == -999

NotAvailable == "Not Available"

\* Series.fillna(value)
FillNa(cell, value) == IF cell = NaN THEN value ELSE cell

\* re.search(r"(\d+)", s): the leftmost maximal run of digits, or "" if none.
RECURSIVE TakeDigits(_)
TakeDigits(s) ==
    IF Len(s) > 0 /\ CharAt(s, 1) \in Digits
    THEN CharAt(s, 1) \o TakeDigits(SubSeq(s, 2, Len(s)))
    ELSE ""

RECURSIVE FirstDigitRun(_)
FirstDigitRun(s) ==
    IF Len(s) = 0 THEN ""
    ELSE IF CharAt(s, 1) \in Digits THEN TakeDigits(s)
    ELSE FirstDigitRun(SubSeq(s, 2, Len(s)))

\* A variant that keeps every digit of the text, not the first run only.
StrExtractDigits_AllDigits(cell) ==
    LET RECURSIVE Keep(_)
        Keep(s) == IF Len(s) = 0 THEN ""
                   ELSE (IF CharAt(s, 1) \in Digits THEN CharAt(s, 1) ELSE "")
                        \o Keep(SubSeq(s, 2, Len(s)))
    IN  IF cell.t = "str" /\ Keep(cell.v) # "" THEN Str(Keep(cell.v)) ELSE NaN

\* Series.str.extract(r"(\d+)") on one cell of an object column.
StrExtractDigits(cell) ==
    IF cell.t = "str" /\ FirstDigitRun(cell.v) # ""
    THEN Str(FirstDigitRun(cell.v))
    ELSE NaN

\* Series.str.replace(",", "", regex=True) on one cell of an object column.
StrRemoveCommas(cell) ==
    IF cell.t = "str" THEN Str(Replace(cell.v, ",", "")) ELSE NaN

\* pd.to_numeric(cell, errors="coerce")
ToNumeric(cell) ==
    CASE cell.t = "num" -> cell
      [] cell.t = "str" -> IF IsNumber(cell.v) THEN Num(StrToNat(cell.v)) ELSE NaN
      [] OTHER -> NaN

\* A variant without the fillna(-999): a value that does not parse stays null.
ConvertNumeric_NoFill(col, cell) ==
    LET n == ToNumeric(cell)
    IN  IF n = NaN THEN NaN
        ELSE IF col \in Range(float_cols) THEN FloatVal(n.v) ELSE IntVal(n.v)

\* pd.to_numeric(...).fillna(-999), then astype(float | int)
ConvertNumeric(col, cell) ==
    LET n == FillNa(ToNumeric(cell), Num(Sentinel))
    IN  IF col \in Range(float_cols) THEN FloatVal(n.v) ELSE IntVal(n.v)

MapColumn(df, col, F(_)) ==
    [df EXCEPT !.rows =
        [i \in 1..Len(df.rows) |-> [df.rows[i] EXCEPT ![col] = F(@)]]]

\* Lines 26-28: every column that is neither float nor integer.
FillTextColumns(df) ==
    [df EXCEPT !.rows =
        [i \in 1..Len(df.rows) |->
            [col \in df.cols |->
                IF col \notin Range(float_cols) /\ col \notin Range(integer_cols)
                THEN FillNa(df.rows[i][col], Str(NotAvailable))
                ELSE df.rows[i][col]]]]

\* Lines 37-39, for every numeric column (all of them present).
ConvertNumericColumns(df) ==
    [df EXCEPT !.rows =
        [i \in 1..Len(df.rows) |->
            [col \in df.cols |->
                IF col \in Range(float_cols) \/ col \in Range(integer_cols)
                THEN ConvertNumeric(col, df.rows[i][col])
                ELSE df.rows[i][col]]]]

\* get_structured_dataset(df_ret): [raised, df]. The .str accessor raises
\* AttributeError on a column that is not of object dtype, and a numeric
\* column missing from the frame raises KeyError; both are re-raised as
\* ValueError by the except clause. df is the frame as the function leaves it.
get_structured_dataset(df_ret) ==
    Bind(df_ret, LAMBDA d0 :
    Bind(FillTextColumns(d0), LAMBDA d1 :
        IF "Runtime" \in d1.cols /\ ~IsObjectColumn(d1, "Runtime")
        THEN [raised |-> "ValueError", df |-> d1]
        ELSE
    Bind(IF "Runtime" \in d1.cols
         THEN MapColumn(d1, "Runtime", StrExtractDigits) ELSE d1, LAMBDA d2 :
        IF "Gross" \in d2.cols /\ ~IsObjectColumn(d2, "Gross")
        THEN [raised |-> "ValueError", df |-> d2]
        ELSE
    Bind(IF "Gross" \in d2.cols
         THEN MapColumn(d2, "Gross", StrRemoveCommas) ELSE d2, LAMBDA d3 :
        IF ~((Range(float_cols) \cup Range(integer_cols)) \subseteq d3.cols)
        THEN [raised |-> "ValueError", df |-> d3]
        ELSE [raised |-> "none", df |-> ConvertNumericColumns(d3)]))))

(***************************************************************************)
(* The source data the model is run on.                                    *)
(***************************************************************************)
AllColumns ==
    {"Poster_Link", "Series_Title", "Released_Year", "Certificate", "Runtime",
     "Genre", "IMDB_Rating", "Overview", "Meta_score", "Director",
     "Star1", "Star2", "Star3", "Star4", "No_of_Votes", "Gross"}

BaseRow ==
    [Poster_Link |-> "p1", Series_Title |-> "Inception",
     Released_Year |-> "2010", Certificate |-> "UA", Runtime |-> "148 min",
     Genre |-> "Action", IMDB_Rating |-> "9",
     Overview |-> "A thief steals secrets through dreams",
     Meta_score |-> "74", Director |-> "Christopher Nolan",
     Star1 |-> "Leonardo DiCaprio", Star2 |-> "Joseph Gordon-Levitt",
     Star3 |-> "Elliot Page", Star4 |-> "Ken Watanabe",
     No_of_Votes |-> "2067042", Gross |-> "292,576,195"]

\* Rows of the source CSV: complete, with blank fields, with fields that do
\* not parse, with plain numbers where the data has "148 min" and "1,234".
HeatRow ==
    [BaseRow EXCEPT !.Series_Title = "Heat", !.Runtime = "170 min",
                    !.Gross = "67,436,818", !.Overview = "",
                    !.Certificate = ""]

RowPool ==
    {BaseRow, HeatRow,
     [BaseRow EXCEPT !.Series_Title = "Stalker", !.Runtime = "",
                     !.Gross = "", !.IMDB_Rating = "", !.Meta_score = "",
                     !.No_of_Votes = "", !.Released_Year = ""],
     [BaseRow EXCEPT !.Series_Title = "Apollo 13", !.Runtime = "min",
                     !.Gross = "unknown", !.Released_Year = "PG"],
     [BaseRow EXCEPT !.Series_Title = "Up", !.Runtime = "96", !.Gross = "7"],
     [BaseRow EXCEPT !.Series_Title = "", !.Director = "", !.Overview = "",
                     !.Runtime = "2h 15 min", !.Gross = ",1,,2"]}

\* Headers: the full one, one without a column the index needs, one
\* without a numeric column.
ColumnSets ==
    {AllColumns, AllColumns \ {"Overview"}, AllColumns \ {"Gross"}}

CsvFile(cols, rows) ==
    [cols |-> cols,
     rows |-> [i \in 1..Len(rows) |-> [c \in cols |-> rows[i][c]]]]

CsvFiles ==
    {CsvFile(cols, rows) :
        cols \in ColumnSets, rows \in SeqsUpTo(RowPool, MaxCsvRows)}

(***************************************************************************)
(* datastore_setup.py: setup_databases and GetDataStoreAssets.             *)
(*                                                                         *)
(* A file system maps each candidate directory (its position in the search *)
(* list) to the file of the given name there: NoFile, a CSV file, a SQLite *)
(* database with its movies table, or a FAISS index with its vectors. A    *)
(* vector is represented by the text it is the embedding of.               *)
(***************************************************************************)
NoFile == [file |-> "none"]

CsvOnDisk(content) == [file |-> "csv", content |-> content]
DbOnDisk(movies) == [file |-> "db", movies |-> movies]
IndexOnDisk(vectors) == [file |-> "index", vectors |-> vectors]

\* The search lists of GetDataStoreAssets.__init__, as directory positions.
csv_paths == <<1, 2>>
sqlite_paths == <<1, 2>>
faiss_paths == <<1, 2>>

\* embed_model.encode(text): the pinned model is a function of the text.
Embed(text) == [emb |-> text]

\* A variant that takes the last directory of the list holding the file.
FirstExisting_Last(paths, fs) ==
    IF \E k \in 1..Len(paths) : fs[paths[k]] # NoFile
    THEN paths[CHOOSE k \in 1..Len(paths) :
                  /\ fs[paths[k]] # NoFile
                  /\ \A j \in (k + 1)..Len(paths) : fs[paths[j]] = NoFile]
    ELSE 0

\* next((... for path_dir in paths if os.path.isfile(...)), None): the first
\* directory of the list holding the file, 0 for None.
FirstExisting(paths, fs) ==
    IF \E k \in 1..Len(paths) : fs[paths[k]] # NoFile
    THEN paths[CHOOSE k \in 1..Len(paths) :
                  /\ fs[paths[k]] # NoFile
                  /\ \A j \in 1..(k - 1) : fs[paths[j]] = NoFile]
    ELSE 0

columns_for_indexing ==
    {"Series_Title", "Director", "Star1", "Star2", "Star3", "Star4", "Overview"}

\* A variant that embeds each distinct overview once.
IndexedTexts_Distinct(df) ==
    LET RECURSIVE Keep(_, _)
        Keep(rows, seen) ==
            IF Len(rows) = 0 THEN <<>>
            ELSE LET text == FillNa(Head(rows)["Overview"], Str(" ")).v
                 IN  (IF text \in seen THEN <<>> ELSE <<text>>)
                     \o Keep(Tail(rows), seen \cup {text})
    IN  Keep(df.rows, {})

\* Lines 136-141: df[columns_for_indexing].fillna(" "), then the list of
\* the Overview column handed to encode: one text per row, in row order.
IndexedTexts(df) ==
    [i \in 1..Len(df.rows) |-> FillNa(df.rows[i]["Overview"], Str(" ")).v]

\* Lines 141-146: one vector per text; with no text at all the array has no
\* second dimension and vectors.shape[1] raises IndexError.
BuildIndex(texts) ==
    IF Len(texts) = 0
    THEN [raised |-> "IndexError", vectors |-> <<>>]
    ELSE [raised |-> "none",
          vectors |-> [i \in 1..Len(texts) |-> Embed(texts[i])]]

SetupResult(raised, dbfs, idxfs, handle, log) ==
    [raised |-> raised, fs_db |-> dbfs, fs_index |-> idxfs,
     handle |-> handle, log |-> log]

Handle(path, index) == [sqlite_db_path |-> path, faiss_index |-> index]

\* Steps E and F of setup_databases, given the frame read from the CSV.
\* The frame is one object: get_structured_dataset changes it in place, so
\* Step F sees the frame as Step E left it.
BuildMissing(df, existing_sqlite_path, existing_faiss_path, dbfs, idxfs) ==
    \* Step E. Create SQLite DB if missing
    Bind(IF existing_sqlite_path = 0
         THEN get_structured_dataset(df)
         ELSE [raised |-> "none", df |-> df], LAMBDA stepE :
    LET new_db_path == IF existing_sqlite_path = 0
                       THEN sqlite_paths[1] ELSE existing_sqlite_path
        dbfs1 == IF existing_sqlite_path = 0
                 THEN [dbfs EXCEPT ![new_db_path] = DbOnDisk(stepE.df)]
                 ELSE dbfs
        logE == <<"csv_found">> \o
                (IF existing_sqlite_path = 0 THEN <<"creating_db">> ELSE <<>>)
    IN  IF stepE.raised # "none"
        THEN SetupResult("RuntimeError", dbfs, idxfs, <<>>, logE)
        \* Step F. Create FAISS index if missing
        ELSE IF existing_faiss_path # 0
        THEN SetupResult("none", dbfs1, idxfs,
                 <<Handle(new_db_path, idxfs[existing_faiss_path].vectors)>>,
                 logE \o <<"setup_complete">>)
        ELSE IF columns_for_indexing \ stepE.df.cols # {}
        THEN SetupResult("RuntimeError", dbfs1, idxfs, <<>>,
                 logE \o <<"creating_index">>)
        ELSE
    Bind(BuildIndex(IndexedTexts(stepE.df)), LAMBDA built :
        IF built.raised # "none"
        THEN SetupResult("RuntimeError", dbfs1, idxfs, <<>>,
                 logE \o <<"creating_index">>)
        ELSE SetupResult("none", dbfs1,
                 [idxfs EXCEPT ![faiss_paths[1]] = IndexOnDisk(built.vectors)],
                 <<Handle(new_db_path, built.vectors)>>,
                 logE \o <<"creating_index", "setup_complete">>)))

\* setup_databases. log is the sequence of [INFO] lines printed. Every
\* exception inside is re-raised as RuntimeError (line 156).
setup_databases(csvfs, dbfs, idxfs) ==
    LET existing_sqlite_path == FirstExisting(sqlite_paths, dbfs)
        existing_faiss_path == FirstExisting(faiss_paths, idxfs)
        existing_csv_path == FirstExisting(csv_paths, csvfs)
    IN  IF existing_sqlite_path # 0 /\ existing_faiss_path # 0
        THEN SetupResult("none", dbfs, idxfs,
                 <<Handle(existing_sqlite_path,
                          idxfs[existing_faiss_path].vectors)>>,
                 <<"found_db", "found_index">>)
        ELSE IF existing_csv_path = 0
        THEN SetupResult("RuntimeError", dbfs, idxfs, <<>>, <<>>)
        ELSE Bind(read_csv(csvfs[existing_csv_path].content), LAMBDA df :
                 BuildMissing(df, existing_sqlite_path, existing_faiss_path,
                              dbfs, idxfs))

\* A variant that reports the failure and carries on without a handle.
GetDataStoreAssets_Swallow(csvfs, dbfs, idxfs) ==
    Bind(setup_databases(csvfs, dbfs, idxfs), LAMBDA r :
        [r EXCEPT !.raised = "none"])

\* GetDataStoreAssets.__init__: FileNotFoundError, ValueError and
\* RuntimeError become ConnectionError.
GetDataStoreAssets(csvfs, dbfs, idxfs) ==
    Bind(setup_databases(csvfs, dbfs, idxfs), LAMBDA r :
        IF r.raised = "none"
        THEN [r EXCEPT !.log = @ \o <<"connected">>]
        ELSE [r EXCEPT !.raised = "ConnectionError"])

(***************************************************************************)
(* Idle values of the variables a specification does not use.              *)
(***************************************************************************)
NoCall ==
    [tool |-> "none", input |-> "", generated |-> "", executed |-> <<>>,
     db |-> <<>>, raised |-> "none", returned |-> <<>>,
     searches |-> <<>>, hits |-> <<>>, first_matched |-> <<>>]

NoDataset == [src |-> [cols |-> {}, rows |-> <<>>], res |-> <<>>]

\* No run of main yet: an empty session_state, nothing displayed.
NoRun == [prompt |-> "", chunks |-> <<>>, raised |-> "none", results |-> <<>>]

NoSession ==
    [session_state |-> <<>>, errors |-> <<>>, rendered |-> <<>>,
     chat_input |-> FALSE, run |-> NoRun]

CandidateDirs == {1, 2}

EmptyFs == [d \in CandidateDirs |-> NoFile]

(***************************************************************************)
(* SpecDataset: get_structured_dataset applied to the frames read from the *)
(* source files.                                                           *)
(***************************************************************************)
InitDataset ==
    /\ pc = "dataset"
    /\ fs_csv = EmptyFs /\ fs_db = EmptyFs /\ fs_index = EmptyFs
    /\ data_objs = <<>>
    /\ boot_error = "none"
    /\ boot_log = <<>>
    /\ last = NoCall
    /\ st = NoSession
    /\ \E file \in CsvFiles : ds = [src |-> read_csv(file), res |-> <<>>]

StructureDataset ==
    /\ pc = "dataset"
    /\ ds.res = <<>>
    /\ \E r \in {get_structured_dataset(ds.src)} :
           ds' = [ds EXCEPT !.res = <<r>>]
    /\ UNCHANGED <<pc, fs_csv, fs_db, fs_index, data_objs, boot_error,
                   boot_log, last, st>>

NextDataset == StructureDataset

SpecDataset == InitDataset /\ [][NextDataset]_vars

(***************************************************************************)
(* SpecStartup: the construction GetDataStoreAssets() at the import of     *)
(* toolbox.py, from every arrangement of the files.                        *)
(***************************************************************************)

\* The artifacts an earlier run left in directory d: built together from
\* the CSV that was there at the time.
PriorCsv(d) ==
    CsvFile(AllColumns, IF d = 1 THEN <<BaseRow>> ELSE <<HeatRow, BaseRow>>)

PriorDb(d) == DbOnDisk(get_structured_dataset(read_csv(PriorCsv(d))).df)

PriorIndex(d) ==
    IndexOnDisk(BuildIndex(IndexedTexts(PriorDb(d).movies)).vectors)

\* The CSV a second candidate directory may hold.
AltCsv == CsvFile(AllColumns, <<HeatRow>>)

InitStartup ==
    /\ pc = "boot"
    /\ data_objs = <<>>
    /\ boot_error = "none"
    /\ boot_log = <<>>
    /\ last = NoCall
    /\ ds = NoDataset
    /\ st = NoSession
    /\ \E c1 \in {NoFile} \cup {CsvOnDisk(f) : f \in CsvFiles},
          c2 \in {NoFile, CsvOnDisk(AltCsv)} :
          fs_csv = [d \in CandidateDirs |-> IF d = 1 THEN c1 ELSE c2]
    /\ \E present \in SUBSET CandidateDirs :
          fs_db = [d \in CandidateDirs |->
                      IF d \in present THEN PriorDb(d) ELSE NoFile]
    /\ \E present \in SUBSET CandidateDirs :
          fs_index = [d \in CandidateDirs |->
                         IF d \in present THEN PriorIndex(d) ELSE NoFile]

\* toolbox.py line 12: data_objs = GetDataStoreAssets().get_data_objects()
Startup ==
    /\ pc = "boot"
    /\ \E r \in {GetDataStoreAssets(fs_csv, fs_db, fs_index)} :
           /\ fs_db' = r.fs_db
           /\ fs_index' = r.fs_index
           /\ boot_log' = r.log
           /\ boot_error' = r.raised
           /\ data_objs' = IF r.raised = "none" THEN r.handle ELSE <<>>
           /\ pc' = IF r.raised = "none" THEN "ready" ELSE "failed"
    /\ UNCHANGED <<fs_csv, last, ds, st>>

NextStartup == Startup

SpecStartup == InitStartup /\ [][NextStartup]_vars

(***************************************************************************)
(* Properties of get_structured_dataset (SpecDataset).                     *)
(***************************************************************************)
NumericColumns ==
    {"IMDB_Rating", "Meta_score", "Gross", "Runtime", "No_of_Votes",
     "Released_Year"}

DatasetReturned == ds.res # <<>> /\ ds.res[1].raised = "none"

\* C6: after get_structured_dataset, every record has exactly one non-null
\* value per field; a numeric column whose source value is missing holds
\* the sentinel -999 and any other column whose source value is missing
\* holds "Not Available".
C6_MissingValuesGetSentinels ==
    DatasetReturned =>
        LET src == ds.src
            out == ds.res[1].df
        IN  /\ out.cols = src.cols
            /\ Len(out.rows) = Len(src.rows)
            /\ \A i \in 1..Len(src.rows) :
                /\ DOMAIN out.rows[i] = src.cols
                /\ \A col \in src.cols :
                    /\ out.rows[i][col] # NaN
                    /\ (col \in NumericColumns /\ src.rows[i][col] = NaN)
                           => out.rows[i][col].v = -999
                    /\ (col \notin NumericColumns /\ src.rows[i][col] = NaN)
                           => out.rows[i][col] = Str("Not Available")

C6_Witness ==
    /\ DatasetReturned
    /\ "Overview" \in ds.src.cols
    /\ \E i \in 1..Len(ds.src.rows) : ds.src.rows[i]["Runtime"] = NaN
    /\ \E i \in 1..Len(ds.src.rows) : ds.src.rows[i]["Overview"] = NaN

\* The characters a..b of text are its first run of digits.
IsFirstDigitRun(text, a, b) ==
    /\ a <= b
    /\ \A k \in 1..(a - 1) : CharAt(text, k) \notin Digits
    /\ \A k \in a..b : CharAt(text, k) \in Digits
    /\ b = Len(text) \/ CharAt(text, b + 1) \notin Digits

RECURSIVE DeleteCommas(_)
DeleteCommas(s) ==
    IF Len(s) = 0 THEN ""
    ELSE IF CharAt(s, Len(s)) = ","
         THEN DeleteCommas(SubSeq(s, 1, Len(s) - 1))
         ELSE DeleteCommas(SubSeq(s, 1, Len(s) - 1)) \o CharAt(s, Len(s))

\* C7: the stored Runtime is the integer of the first run of digits of the
\* source text, the stored Gross is the float of the source text with all
\* commas deleted, and a value that does not parse as a number is stored
\* as -999.
C7_NumericParsing ==
    DatasetReturned =>
        \A i \in 1..Len(ds.src.rows) :
            LET src == ds.src.rows[i]
                out == ds.res[1].df.rows[i]
            IN  /\ src["Runtime"].t = "str" =>
                     LET text == src["Runtime"].v
                     IN  IF \E k \in 1..Len(text) : CharAt(text, k) \in Digits
                         THEN \E a, b \in 1..Len(text) :
                                 /\ IsFirstDigitRun(text, a, b)
                                 /\ out["Runtime"] =
                                        IntVal(StrToNat(SubSeq(text, a, b)))
                         ELSE out["Runtime"] = IntVal(-999)
                /\ src["Gross"].t = "str" =>
                     LET text == DeleteCommas(src["Gross"].v)
                     IN  IF IsNumber(text)
                         THEN out["Gross"] = FloatVal(StrToNat(text))
                         ELSE out["Gross"] = FloatVal(-999)
                /\ \A col \in NumericColumns \ {"Runtime", "Gross"} :
                     (src[col].t = "str" /\ ~IsNumber(src[col].v))
                         => out[col].v = -999

C7_Witness ==
    /\ DatasetReturned
    /\ \E i \in 1..Len(ds.src.rows) :
        /\ ds.src.rows[i]["Runtime"] = Str("148 min")
        /\ ds.res[1].df.rows[i]["Runtime"] = IntVal(148)
        /\ ds.src.rows[i]["Gross"] = Str("292,576,195")
        /\ ds.res[1].df.rows[i]["Gross"] = FloatVal(292576195)
    /\ \E i \in 1..Len(ds.src.rows) :
        /\ ds.src.rows[i]["Runtime"] = Str("min")
        /\ ds.res[1].df.rows[i]["Runtime"] = IntVal(-999)

(***************************************************************************)
(* Properties of the startup (SpecStartup).                                *)
(***************************************************************************)
CsvAbsent == \A d \in CandidateDirs : fs_csv[d] = NoFile
DbAbsent == \A d \in CandidateDirs : fs_db[d] = NoFile
IndexAbsent == \A d \in CandidateDirs : fs_index[d] = NoFile

\* The CSV the run read: the one in the first candidate directory holding one.
SourceCsv == fs_csv[IF fs_csv[1] # NoFile THEN 1 ELSE 2].content

BuiltDb == pc = "ready" /\ "creating_db" \in Range(boot_log)
BuiltIndex == pc = "ready" /\ "creating_index" \in Range(boot_log)

\* C8: when a run builds both artifacts from a CSV of N rows, the table has
\* the N rows in source order, the index has exactly N vectors, and the
\* vector at position i is the embedding of the overview stored in row i of
\* the table.
C8_IndexRowAligned ==
    (BuiltDb /\ BuiltIndex) =>
        LET N == Len(SourceCsv.rows)
            table == fs_db[1].movies
            index == fs_index[1].vectors
        IN  /\ Len(table.rows) = N
            /\ Len(index) = N
            /\ data_objs[1].faiss_index = index
            /\ \A i \in 1..N :
                /\ index[i] = Embed(table.rows[i]["Overview"].v)
                /\ table.rows[i]["Series_Title"].v =
                       IF SourceCsv.rows[i]["Series_Title"] \in NaStrings
                       THEN "Not Available"
                       ELSE SourceCsv.rows[i]["Series_Title"]

C8_Witness ==
    /\ BuiltDb /\ BuiltIndex
    /\ Len(fs_index[1].vectors) = 2
    /\ SourceCsv.rows[1]["Series_Title"] # SourceCsv.rows[2]["Series_Title"]
    /\ SourceCsv.rows[2]["Overview"] = ""

\* C9: whenever a run builds the index, a row whose source overview is blank
\* is embedded from the single space " ", whether or not the same run also
\* builds the database, and no row is skipped.
C9_BlankOverviewEmbedsSpace ==
    BuiltIndex =>
        /\ Len(fs_index[1].vectors) = Len(SourceCsv.rows)
        /\ \A i \in 1..Len(SourceCsv.rows) :
               SourceCsv.rows[i]["Overview"] \in NaStrings
                   => fs_index[1].vectors[i] = Embed(" ")

\* C10: with the CSV absent from every candidate directory and the database
\* or the index absent from all of its candidate directories, the startup
\* raises ConnectionError, yields no handle and creates no file; with both
\* artifacts present it succeeds, whether or not there is a CSV.
C10_StartupFailure ==
    [][pc = "boot" =>
        /\ (CsvAbsent /\ (DbAbsent \/ IndexAbsent)) =>
              /\ pc' = "failed"
              /\ boot_error' = "ConnectionError"
              /\ data_objs' = <<>>
              /\ fs_db' = fs_db
              /\ fs_index' = fs_index
        /\ (~DbAbsent /\ ~IndexAbsent) =>
              /\ pc' = "ready"
              /\ boot_error' = "none"
              /\ Len(data_objs') = 1
              /\ fs_db' = fs_db
              /\ fs_index' = fs_index]_vars

C10_Witness ==
    /\ pc = "failed"
    /\ boot_error = "ConnectionError"
    /\ CsvAbsent
    /\ ~DbAbsent
    /\ IndexAbsent

\* The first directory, in list order, that holds a file; 0 when none does.
FirstHolding(fs) ==
    IF fs[1] # NoFile THEN 1 ELSE IF fs[2] # NoFile THEN 2 ELSE 0

\* C11: a database or index file that exists in a candidate directory is
\* never rewritten by the startup, and on success it is the one returned,
\* taken from the first candidate directory holding it; an artifact missing
\* from every candidate directory is, on success, created in the first
\* directory of its list and nowhere else.
C11_RebuildPerMissingArtifact ==
    [][pc = "boot" =>
        /\ \A d \in CandidateDirs :
              /\ fs_db[d] # NoFile => fs_db'[d] = fs_db[d]
              /\ fs_index[d] # NoFile => fs_index'[d] = fs_index[d]
        /\ pc' = "ready" =>
              /\ IF DbAbsent
                 THEN /\ data_objs'[1].sqlite_db_path = 1
                      /\ fs_db'[1].file = "db"
                      /\ fs_db'[2] = NoFile
                 ELSE /\ data_objs'[1].sqlite_db_path = FirstHolding(fs_db)
                      /\ fs_db' = fs_db
              /\ IF IndexAbsent
                 THEN /\ fs_index'[1].file = "index"
                      /\ data_objs'[1].faiss_index = fs_index'[1].vectors
                      /\ fs_index'[2] = NoFile
                 ELSE /\ data_objs'[1].faiss_index =
                             fs_index[FirstHolding(fs_index)].vectors
                      /\ fs_index' = fs_index]_vars

\* A run that found the database in both directories, returned the first,
\* and built only the index.
C11_Witness ==
    /\ pc = "ready"
    /\ "creating_index" \in Range(boot_log)
    /\ "creating_db" \notin Range(boot_log)
    /\ fs_db[1] # NoFile /\ fs_db[2] # NoFile /\ fs_db[1] # fs_db[2]
    /\ data_objs[1].sqlite_db_path = 1
    /\ fs_index[1].file = "index" /\ fs_index[2] = NoFile

(***************************************************************************)
(* toolbox.py: adaptive_structured_query_tool.                             *)
(*                                                                         *)
(* What SQLite does with a statement is outside the repository: for a      *)
(* non-empty statement every outcome of cursor.execute is possible; the    *)
(* empty statement is a no-op that leaves cursor.description None. The     *)
(* connection of line 77 is an ordinary read-write one on which nothing is *)
(* committed: the row changes of INSERT, UPDATE and DELETE are rolled back *)
(* when the connection is dropped, while a schema statement such as DROP   *)
(* TABLE runs outside any transaction and takes effect at once.            *)
(***************************************************************************)
ResultShapes ==
    {[description |-> <<"Series_Title", "IMDB_Rating">>,
      pool |-> {<<"Inception", "9">>, <<"Heat", "8">>}],
     [description |-> <<"n", "n">>, pool |-> {<<"1", "2">>}]}

ResultSets ==
    UNION {{[kind |-> "rows", description |-> shape.description, rows |-> rows] :
               rows \in SeqsUpTo(shape.pool, MaxResultRows)} :
           shape \in ResultShapes}

NoResultSet == [kind |-> "nodesc"]

\* A database file whose movies table has been dropped.
DbWithoutTable == [file |-> "db"]

HasTable(db) == "movies" \in DOMAIN db

DropMovies == "DROP TABLE movies"

\* sqlite3.connect / cursor.execute / cursor.fetchall, lines 77-80.
DbExecute(statement, db) ==
    IF statement = "" THEN {NoResultSet}
    ELSE IF statement = DropMovies
    THEN IF HasTable(db)
         THEN {NoResultSet}
         ELSE {[kind |-> "OperationalError", msg |-> "no such table"]}
    ELSE ResultSets
         \cup {NoResultSet,
               [kind |-> "OperationalError", msg |-> "syntax error"],
               [kind |-> "OperationalError", msg |-> "no such table"],
               [kind |-> "ProgrammingError"]}

\* The database file once the connection of lines 77-79 is gone.
DbAfter(statement, db, out) ==
    IF statement = DropMovies /\ out.kind = "nodesc"
    THEN DbWithoutTable
    ELSE db

\* dict(zip(col_names, row)): a later column of the same name wins.
DictZip(col_names, row) ==
    [name \in Range(col_names) |->
        row[CHOOSE k \in 1..Len(col_names) :
                /\ col_names[k] = name
                /\ \A j \in (k + 1)..Len(col_names) : col_names[j] # name]]

\* A variant without the test for an empty result.
FormatResults_NoEmptyCheck(results) == JsonArray(results)

\* Lines 84-87.
FormatResults(results) ==
    IF Len(results) = 0
    THEN JsonObject([message |-> "No results found."])
    ELSE JsonArray(results)

StructuredCall(sql, executed, db, raised, returned) ==
    [NoCall EXCEPT !.tool = "structured", !.generated = sql,
                   !.executed = executed, !.db = db, !.raised = raised,
                   !.returned = returned]

\* Lines 80-90, given the cleaned query and what the database did with it.
\* Iterating cursor.description when it is None raises TypeError; only
\* sqlite3.OperationalError is caught.
StructuredOutcome(generated, sql_query, out) ==
    CASE out.kind = "OperationalError" ->
            StructuredCall(generated, <<sql_query>>, <<out>>, "none",
                <<JsonObject([error |-> out.msg, query |-> sql_query])>>)
      [] out.kind = "ProgrammingError" ->
            StructuredCall(generated, <<sql_query>>, <<out>>,
                "ProgrammingError", <<>>)
      [] out.kind = "nodesc" ->
            StructuredCall(generated, <<sql_query>>, <<out>>, "TypeError", <<>>)
      [] out.kind = "rows" ->
            StructuredCall(generated, <<sql_query>>, <<out>>, "none",
                <<FormatResults([i \in 1..Len(out.rows) |->
                                    DictZip(out.description, out.rows[i])])>>)

\* The tool, lines 71-90. user_input reaches the code only through the LLM,
\* whose answer is any of LlmSqlOutputs.
adaptive_structured_query_tool ==
    /\ pc = "ready"
    /\ last.tool = "none"
    /\ \E content \in LlmSqlOutputs :
        \E sql \in {generate_sql_query(content)} :
        \E cleaned \in {clean_sql_query(sql)} :
            IF cleaned.raised # "none"
            THEN /\ last' = StructuredCall(sql, <<>>, <<>>, cleaned.raised, <<>>)
                 /\ fs_db' = fs_db
            ELSE LET path == data_objs[1].sqlite_db_path
                 IN  \E out \in DbExecute(cleaned.value, fs_db[path]) :
                        /\ last' = StructuredOutcome(sql, cleaned.value, out)
                        /\ fs_db' = [fs_db EXCEPT ![path] =
                                         DbAfter(cleaned.value, @, out)]
    /\ UNCHANGED <<pc, fs_csv, fs_index, data_objs, boot_error, boot_log, ds,
                   st>>

(***************************************************************************)
(* toolbox.py: expand_semantic_query and adaptive_semantic_search_tool.    *)
(***************************************************************************)

\* SYNONYMS, in the insertion order of the dict.
SYNONYMS ==
    <<[keyword |-> "death",
       syns |-> <<"dying", "murder", "dead", "kill", "fatal">>],
      [keyword |-> "dream", syns |-> <<"dreams", "subconscious", "sleep">>],
      [keyword |-> "robot", syns |-> <<"android", "AI", "machine", "cyborg">>]>>

\* The loop of lines 105-107 over SYNONYMS[from..], matching in text.
RECURSIVE Expansions(_, _)
Expansions(text, from) ==
    IF from > Len(SYNONYMS) THEN <<>>
    ELSE (IF Contains(text, SYNONYMS[from].keyword)
          THEN SYNONYMS[from].syns ELSE <<>>)
         \o Expansions(text, from + 1)

WithExpansions(user_query, expansions) ==
    IF Len(expansions) > 0
    THEN user_query \o " (" \o Join(" OR ", expansions) \o ")"
    ELSE user_query

\* A variant that looks for the keywords in the query as typed.
expand_semantic_query_CaseSensitive(user_query) ==
    WithExpansions(user_query, Expansions(user_query, 1))

expand_semantic_query(user_query) ==
    WithExpansions(user_query, Expansions(Lower(user_query), 1))

\* The number of neighbours asked of the index.
TopK == 5

Min(a, b) == IF a < b THEN a ELSE b

\* index.search(q_emb, k) on an index of ntotal vectors: the positions
\* (from 0) of the min(k, ntotal) nearest vectors, nearest first, then -1
\* for the neighbours that do not exist. Which vectors are nearest is
\* decided by the embedding model: any order of any of them is possible.
SearchResults(ntotal, k) ==
    LET m == Min(k, ntotal)
    IN  {[i \in 1..k |-> IF i <= m THEN q[i] ELSE -1] :
            q \in {f \in [1..m -> 0..(ntotal - 1)] :
                      \A i, j \in 1..m : i # j => f[i] # f[j]}}

\* SELECT distinct Series_Title FROM movies: each title once, in the order
\* of the table scan.
RECURSIVE DistinctTitles(_, _)
DistinctTitles(rows, seen) ==
    IF Len(rows) = 0 THEN <<>>
    ELSE LET title == Head(rows)["Series_Title"].v
         IN  (IF title \in seen THEN <<>> ELSE <<title>>)
             \o DistinctTitles(Tail(rows), seen \cup {title})

\* Lines 153-157: the titles numbered from 1.
IdToTitleMap(movie_titles) == [idx \in 1..Len(movie_titles) |-> movie_titles[idx]]

\* [id_to_title_map[idx] for idx in indices[0] if idx in id_to_title_map]
RECURSIVE MatchedTitles(_, _)
MatchedTitles(indices, id_to_title_map) ==
    IF Len(indices) = 0 THEN <<>>
    ELSE (IF Head(indices) \in DOMAIN id_to_title_map
          THEN <<id_to_title_map[Head(indices)]>> ELSE <<>>)
         \o MatchedTitles(Tail(indices), id_to_title_map)

\* A variant that always searches a second time.
NeedsExpansion_Always(matched_titles) == TRUE

\* Line 165: if not matched_titles
NeedsExpansion(matched_titles) == Len(matched_titles) = 0

SemanticCall(search_query, searches, hits, first_matched, titles) ==
    [NoCall EXCEPT !.tool = "semantic", !.input = search_query,
                   !.searches = searches, !.hits = hits,
                   !.first_matched = first_matched,
                   !.returned = <<JsonArray(titles)>>]

\* What the LLM agent may pass as search_query.
QueryFragments == {"a story about ", "death", "Dream", "ROBOT", "s", " and "}

SearchQueries == Concats(QueryFragments, MaxQueryFrags)

\* The tool, lines 128-171. The embedding model is a function of the text:
\* a second search with the same text returns what the first returned.
adaptive_semantic_search_tool ==
    /\ pc = "ready"
    /\ last.tool = "none"
    /\ \E search_query \in SearchQueries :
        LET db == fs_db[data_objs[1].sqlite_db_path]
            faiss_index == data_objs[1].faiss_index
        IN  \* line 133 is outside any try: no such table: movies
            IF ~HasTable(db)
            THEN last' = [NoCall EXCEPT !.tool = "semantic",
                                        !.input = search_query,
                                        !.raised = "OperationalError"]
            ELSE
            \E movie_titles \in {DistinctTitles(db.movies.rows, {})} :
            IF Len(movie_titles) = 0
            THEN last' = SemanticCall(search_query, <<>>, <<>>, <<>>, <<>>)
            ELSE
            \E indices \in SearchResults(Len(faiss_index), TopK) :
            \E matched \in {MatchedTitles(indices, IdToTitleMap(movie_titles))} :
            IF ~NeedsExpansion(matched)
            THEN last' = SemanticCall(search_query, <<search_query>>,
                             <<indices>>, matched, matched)
            ELSE
            \E expanded_query \in {expand_semantic_query(search_query)} :
            \E indices2 \in SearchResults(Len(faiss_index), TopK) :
                /\ expanded_query = search_query => indices2 = indices
                /\ last' = SemanticCall(search_query,
                               <<search_query, expanded_query>>,
                               <<indices, indices2>>, matched,
                               MatchedTitles(indices2,
                                             IdToTitleMap(movie_titles)))
    /\ UNCHANGED <<pc, fs_csv, fs_db, fs_index, data_objs, boot_error,
                   boot_log, ds, st>>

(***************************************************************************)
(* SpecTools: the tools after a successful startup.                        *)
(***************************************************************************)
RemakeRow ==
    [BaseRow EXCEPT !.Released_Year = "2030",
                    !.Overview = "Dream thieves, again"]

\* The source data of the runs the tools are checked on: no row, one row,
\* distinct titles, a repeated title.
ToolDatasets ==
    {<<>>, <<BaseRow>>, <<BaseRow, HeatRow>>, <<BaseRow, RemakeRow, HeatRow>>}

\* The state toolbox.py is imported in: the artifacts are built from the
\* CSV, or the database is built and an index of an earlier run is loaded.
InitTools ==
    /\ pc = "ready"
    /\ boot_error = "none"
    /\ last = NoCall
    /\ ds = NoDataset
    /\ st = NoSession
    /\ \E rows \in ToolDatasets, old_index \in {NoFile, PriorIndex(2)} :
        /\ fs_csv = [d \in CandidateDirs |->
                        IF d = 1 THEN CsvOnDisk(CsvFile(AllColumns, rows))
                        ELSE NoFile]
        /\ \E r \in {GetDataStoreAssets(fs_csv, EmptyFs,
                        [d \in CandidateDirs |->
                            IF d = 2 THEN old_index ELSE NoFile])} :
            /\ r.raised = "none"
            /\ fs_db = r.fs_db
            /\ fs_index = r.fs_index
            /\ data_objs = r.handle
            /\ boot_log = r.log

\* The value or the exception of the call reaches the agent loop the tools
\* were given to; the next call starts from there. The turn is processed by
\* one thread: no tool is invoked while a call is in progress.
ToolReturns ==
    /\ pc = "ready"
    /\ last.tool # "none"
    /\ last' = NoCall
    /\ UNCHANGED <<pc, fs_csv, fs_db, fs_index, data_objs, boot_error,
                   boot_log, ds, st>>

NextTools ==
    \/ adaptive_structured_query_tool
    \/ adaptive_semantic_search_tool
    \/ ToolReturns

SpecTools == InitTools /\ [][NextTools]_vars

(***************************************************************************)
(* Properties of the tools (SpecTools).                                    *)
(***************************************************************************)
StructuredDone == last.tool = "structured"
SemanticDone == last.tool = "semantic"

IsErrorObject(v) == v.kind = "object" /\ DOMAIN v.fields = {"error", "query"}

NoResultsMessage == JsonObject([message |-> "No results found."])

\* Backticks and the token "sql" removed, then trimmed.
Sanitized(text) == Strip(Replace(Replace(text, Backtick, ""), "sql", ""))

\* The database did not accept the statement as SQL it can execute.
NotExecutable(out) == out.kind \in {"OperationalError", "ProgrammingError"}

\* C1: whenever the generated query is empty or is not executable SQL, the
\* structured query tool returns a JSON object with an "error" field and a
\* "query" field holding the query text, and raises nothing.
C1_ErrorObjectNeverRaises ==
    (StructuredDone /\ (last.generated = ""
                        \/ (last.db # <<>> /\ NotExecutable(last.db[1])))) =>
        /\ last.raised = "none"
        /\ last.returned # <<>>
        /\ IsErrorObject(last.returned[1])
        /\ last.returned[1].fields["query"] \in {last.generated} \cup Range(last.executed)

\* C2: whenever sanitizing the generated query yields the empty string the
\* tool fails with the "malformed query" error (ValueError), and the empty
\* statement is never passed to the database.
C2_EmptyStatementNeverExecuted ==
    StructuredDone =>
        /\ Sanitized(last.generated) = "" =>
              (last.raised = "ValueError" /\ last.executed = <<>>)
        /\ \A k \in 1..Len(last.executed) : last.executed[k] # ""

\* C3: every value the structured query tool returns is a non-empty array
\* with one object per result row keyed by the column names of the result,
\* or the "No results found." message, or an object with "error" and
\* "query"; the message is returned exactly when the query executed and
\* produced no row.
C3_ReturnShapes ==
    (StructuredDone /\ last.returned # <<>>) =>
        LET v == last.returned[1]
            out == last.db[1]
        IN  /\ \/ /\ v.kind = "array"
                  /\ Len(v.items) >= 1
                  /\ out.kind = "rows"
                  /\ Len(v.items) = Len(out.rows)
                  /\ \A i \in 1..Len(v.items) :
                        /\ DOMAIN v.items[i] = Range(out.description)
                        /\ \A name \in DOMAIN v.items[i] :
                              \E k \in 1..Len(out.description) :
                                  /\ out.description[k] = name
                                  /\ out.rows[i][k] = v.items[i][name]
               \/ v = NoResultsMessage
               \/ IsErrorObject(v)
            /\ v = NoResultsMessage <=> (out.kind = "rows" /\ Len(out.rows) = 0)

C3_Witness ==
    /\ StructuredDone
    /\ last.returned # <<>>
    /\ last.returned[1].kind = "array"
    /\ Len(last.returned[1].items) = 2
    /\ DOMAIN last.returned[1].items[1] = {"Series_Title", "IMDB_Rating"}

TriggerWords == {"death", "dream", "robot"}

TriggersIn(query) == {w \in TriggerWords : Contains(Lower(query), w)}

\* C4: a first search that resolves no title, for a query with a trigger
\* word, is followed by exactly one second search with the expanded text;
\* the index is searched at most twice; a first search that resolves a
\* title is not followed by another; the tool returns an array (empty when
\* nothing matched), never an error. The invocations are those that find
\* the movies table to read the titles from.
C4_OneExpansionRetry ==
    (SemanticDone /\ HasTable(fs_db[data_objs[1].sqlite_db_path])) =>
        /\ Len(last.searches) <= 2
        /\ Len(last.hits) = Len(last.searches)
        /\ Len(last.searches) >= 1 => last.searches[1] = last.input
        /\ Len(last.first_matched) >= 1 => Len(last.searches) = 1
        /\ (Len(last.searches) >= 1 /\ Len(last.first_matched) = 0
                /\ TriggersIn(last.input) # {}) =>
              /\ Len(last.searches) = 2
              /\ last.searches[2] # last.input
              /\ SubSeq(last.searches[2], 1, Len(last.input)) = last.input
        /\ last.raised = "none"
        /\ last.returned # <<>>
        /\ last.returned[1].kind = "array"
        /\ Len(last.searches) = 1 => last.returned[1].items = last.first_matched

C4_Witness ==
    /\ SemanticDone
    /\ Len(last.searches) = 2
    /\ TriggersIn(last.input) # {}
    /\ last.returned = <<JsonArray(<<>>)>>

SynonymsOf(word) ==
    CASE word = "death" -> {"dying", "murder", "dead", "kill", "fatal"}
      [] word = "dream" -> {"dreams", "subconscious", "sleep"}
      [] word = "robot" -> {"android", "AI", "machine", "cyborg"}

\* The set of the parts of text between the separators " OR ".
RECURSIVE PartsOf(_)
PartsOf(text) ==
    IF \E i \in 1..(Len(text) - 3) : SubSeq(text, i, i + 3) = " OR "
    THEN LET i == CHOOSE k \in 1..(Len(text) - 3) :
                     /\ SubSeq(text, k, k + 3) = " OR "
                     /\ \A j \in 1..(k - 1) : SubSeq(text, j, j + 3) # " OR "
         IN  {SubSeq(text, 1, i - 1)} \cup PartsOf(SubSeq(text, i + 4, Len(text)))
    ELSE {text}

\* C5: the text of the second search is the query unchanged when the
\* lower-cased query contains no trigger word; otherwise it is the query
\* followed by " (", the synonyms of exactly the trigger words found joined
\* by " OR ", and ")".
C5_ExpansionText ==
    (SemanticDone /\ Len(last.searches) = 2) =>
        LET query == last.input
            expanded == last.searches[2]
            found == TriggersIn(query)
            inner == SubSeq(expanded, Len(query) + 3, Len(expanded) - 1)
        IN  IF found = {} THEN expanded = query
            ELSE /\ expanded = query \o " (" \o inner \o ")"
                 /\ PartsOf(inner) = UNION {SynonymsOf(w) : w \in found}

C5_Witness ==
    /\ SemanticDone
    /\ Len(last.searches) = 2
    /\ TriggersIn(last.input) = {"death", "dream"}
    /\ last.input # Lower(last.input)

\* The titles of the rows at the positions of hits (counted from 0, as the
\* index counts its vectors), in the order of hits; a position that is not
\* the position of a row gives no title.
RECURSIVE TitlesAtPositions(_, _)
TitlesAtPositions(hits, rows) ==
    IF Len(hits) = 0 THEN <<>>
    ELSE (IF Head(hits) \in 0..(Len(rows) - 1)
          THEN <<rows[Head(hits) + 1]["Series_Title"].v>> ELSE <<>>)
         \o TitlesAtPositions(Tail(hits), rows)

NoDuplicateTitles(rows) ==
    \A i, j \in 1..Len(rows) :
        i # j => rows[i]["Series_Title"] # rows[j]["Series_Title"]

RowAligned(index, rows) ==
    /\ Len(index) = Len(rows)
    /\ \A i \in 1..Len(rows) : index[i] = Embed(rows[i]["Overview"].v)

\* C16: with distinct titles and an index that has the vector of row p at
\* position p, the titles returned by the semantic search tool are those of
\* the rows at the positions the last index search returned, the sentinel
\* -1 giving no title, and there are at most 5 of them.
C16_NeighbourResolvesToItsRow ==
    (/\ SemanticDone
     /\ HasTable(fs_db[data_objs[1].sqlite_db_path])
     /\ Len(last.hits) >= 1) =>
        LET rows == fs_db[data_objs[1].sqlite_db_path].movies.rows
            titles == last.returned[1].items
        IN  (NoDuplicateTitles(rows)
             /\ RowAligned(data_objs[1].faiss_index, rows)) =>
                /\ Len(titles) <= 5
                /\ titles = TitlesAtPositions(last.hits[Len(last.hits)], rows)

\* C14: no invocation of either tool changes the database file or the
\* index file in any candidate directory, nor the index held in memory.
C14_StoresReadOnly ==
    [][pc = "ready" =>
        /\ fs_db' = fs_db
        /\ fs_index' = fs_index
        /\ data_objs' = data_objs]_vars

(***************************************************************************)
(* app.py: process_msg_chunks and main.                                    *)
(*                                                                         *)
(* session_state is a dict: a function whose domain is the set of its      *)
(* keys. A message is a record of its attributes. A step payload (chunk)   *)
(* is a dict keyed by the node that produced it.                           *)
(***************************************************************************)
USER == "user"
ASSISTANT == "assistant"

\* d[k] = v on a dict.
Put(d, k, v) == [x \in DOMAIN d \cup {k} |-> IF x = k THEN v ELSE d[x]]

\* An AIMessage; function_call is <<>> when additional_kwargs has no
\* "function_call", else <<[name |-> ..., arguments |-> ...]>>.
AIMessage(content, function_call) ==
    [type |-> "AIMessage", content |-> content, name |-> "None",
     function_call |-> function_call]

ToolMessage(content, name) ==
    [type |-> "ToolMessage", content |-> content, name |-> name]

\* json.loads(tool_arguments_json) followed by str() of the dict, as the
\* template prints it; text that is not JSON gives {} (lines 43-46).
ToolArguments(tool_arguments_json) ==
    IF tool_arguments_json = "{\"search_query\": \"dream\"}"
    THEN "{'search_query': 'dream'}"
    ELSE "{}"

\* The template of lines 49-58, filled in.
AgentCot(curr_step, ai_message_content, tool_name, tool_arguments) ==
    "\n            **:blue[Step " \o ToString(curr_step) \o ":]**  \n"
    \o "            **AI Thought:** " \o ai_message_content \o "  \n"
    \o "            **Tool Name:** " \o tool_name \o "  \n"
    \o "            **Tool Arguments:** " \o tool_arguments \o " \n\n"
    \o "            ....\n\n            "

\* The template of lines 78-86, filled in.
ToolCot(curr_step, tool_name, tool_message_content) ==
    "\n            **:blue[Step " \o ToString(curr_step)
    \o ":]**  (Tool Calling Step)\n"
    \o "            **Tool Name:** " \o tool_name \o "  \n"
    \o "            **Tool Response:** " \o tool_message_content \o "  \n\n"
    \o "            ....\n\n            "

\* What one call of process_msg_chunks gives: the value returned (<<>> for
\* None, else <<dict>>) and the st.error messages it displayed.
Returned(ai_message, cot) ==
    [value |-> <<[ai_message |-> ai_message, cot |-> cot]>>, errors |-> <<>>]

ReturnedNone == [value |-> <<>>, errors |-> <<>>]

\* except (KeyError, IndexError, ValueError), lines 95-97.
Caught(e) ==
    [value |-> <<>>, errors |-> <<"Error processing message chunk: " \o e>>]

\* The "agent" branch, lines 25-63, with the handler of lines 95-97. The
\* handler of lines 98-100 does the same, under another heading, for the
\* exceptions of other classes.
AgentStep(chunk, curr_step) ==
    IF "messages" \notin DOMAIN chunk["agent"]
    THEN Caught("'messages'")
    ELSE IF Len(chunk["agent"]["messages"]) = 0
    THEN Caught("list index out of range")
    ELSE
    LET ai_message == chunk["agent"]["messages"][1]
    IN  IF ai_message.type # "AIMessage"
        THEN Caught("Invalid AIMessage format in agent chunk.")
        ELSE
        LET ai_message_content ==
                IF ai_message.content # "" THEN ai_message.content
                ELSE "No Message Available"
            tool_name ==
                IF Len(ai_message.function_call) = 0 THEN "None"
                ELSE ai_message.function_call[1].name
            tool_arguments ==
                IF Len(ai_message.function_call) = 0 THEN "{}"
                ELSE ToolArguments(ai_message.function_call[1].arguments)
        IN  Returned(ai_message_content,
                AgentCot(curr_step, ai_message_content, tool_name,
                         tool_arguments))

\* The "tools" branch, lines 65-91, with the handler of lines 95-97.
ToolsStep(chunk, curr_step) ==
    IF "messages" \notin DOMAIN chunk["tools"]
    THEN Caught("'messages'")
    ELSE IF Len(chunk["tools"]["messages"]) = 0
    THEN Caught("list index out of range")
    ELSE
    LET tool_message == chunk["tools"]["messages"][1]
    IN  IF {"content", "name"} \ DOMAIN tool_message # {}
        THEN Caught("Invalid ToolMessage format in tools chunk.")
        ELSE Returned("No Message Available",
                 ToolCot(curr_step, tool_message.name, tool_message.content))

\* A variant whose handlers return None without calling st.error.
process_msg_chunks_Silent(chunk, curr_step) ==
    IF "agent" \in DOMAIN chunk
    THEN [AgentStep(chunk, curr_step) EXCEPT !.errors = <<>>]
    ELSE IF "tools" \in DOMAIN chunk
    THEN [ToolsStep(chunk, curr_step) EXCEPT !.errors = <<>>]
    ELSE ReturnedNone

\* process_msg_chunks; line 93 for a chunk of neither kind.
process_msg_chunks(chunk, curr_step) ==
    IF "agent" \in DOMAIN chunk THEN AgentStep(chunk, curr_step)
    ELSE IF "tools" \in DOMAIN chunk THEN ToolsStep(chunk, curr_step)
    ELSE ReturnedNone

\* The loop of lines 171-178 over the chunks the stream yields, from step
\* number tracker on: the response_tracker, the errors displayed and the
\* value process_msg_chunks returned for each chunk.
RECURSIVE StreamLoop(_, _, _)
StreamLoop(chunks, tracker, acc) ==
    IF Len(chunks) = 0 THEN acc
    ELSE Bind(process_msg_chunks(Head(chunks), tracker), LAMBDA cot_details :
             StreamLoop(Tail(chunks), tracker + 1,
                 [response_tracker |->
                      acc.response_tracker \o cot_details.value,
                  errors |-> acc.errors \o cot_details.errors,
                  results |-> Append(acc.results, cot_details.value)]))

\* A variant that shows the trace of a single step as well.
CotDisplay_Always(response_tracker) ==
    Join("\n", [i \in 1..Len(response_tracker) |-> response_tracker[i].cot])

\* Lines 188-193.
CotDisplay(response_tracker) ==
    IF Len(response_tracker) > 1
    THEN Join("\n", [i \in 1..Len(response_tracker) |->
                        response_tracker[i].cot])
    ELSE "Nothing to Display."

UserTurn(prompt) == [role |-> USER, content |-> prompt]

AssistantTurn(ai_resp, cot_display) ==
    [role |-> ASSISTANT, content |-> ai_resp, cot |-> cot_display]

\* What a run of main leaves: session_state, the st.error messages, what
\* render_chat_history showed (<<>> when the run returned before line 204),
\* whether the chat input was drawn, and the record of the turn.
AfterRun(session_state, errors, rendered, chat_input, run) ==
    [session_state |-> session_state, errors |-> errors,
     rendered |-> IF rendered THEN <<session_state["chat_history"]>> ELSE <<>>,
     chat_input |-> chat_input, run |-> run]

\* A variant that starts every run from an empty history.
InitHistory_Reset(session_state) == Put(session_state, "chat_history", <<>>)

\* Lines 139-140.
InitHistory(session_state) ==
    IF "chat_history" \notin DOMAIN session_state
    THEN Put(session_state, "chat_history", <<>>)
    ELSE session_state

\* A variant that goes on as if the stream had ended normally.
StreamFailed_Never(stream) == FALSE

\* The for statement of line 171 is left by an exception (line 200).
StreamFailed(stream) == stream.raised # "none"

\* Lines 153-201, for a prompt that is not empty. The agent is the graph
\* create_react_agent returned, which has a stream method. stream is what
\* agent.stream does: the chunks it yields and the exception that ends it,
\* if any.
Turn(session_state, prompt, stream) ==
    Bind(StreamLoop(stream.chunks, 1,
             [response_tracker |-> <<>>, errors |-> <<>>, results |-> <<>>]),
         LAMBDA loop :
    LET asked == [session_state EXCEPT
                      !["chat_history"] = Append(@, UserTurn(prompt))]
        tracked == Put(asked, "response_tracker", loop.response_tracker)
        response_tracker == loop.response_tracker
        run == [prompt |-> prompt, chunks |-> stream.chunks,
                raised |-> stream.raised, results |-> loop.results]
    IN  IF StreamFailed(stream)
        THEN AfterRun(tracked,
                 loop.errors \o <<"Error while processing AI response: "
                                     \o stream.raised>>,
                 TRUE, TRUE, run)
        ELSE IF Len(response_tracker) = 0
        THEN AfterRun(tracked,
                 loop.errors \o <<"No valid AI response received.">>,
                 FALSE, TRUE, run)
        ELSE AfterRun(
                 [tracked EXCEPT !["chat_history"] = Append(@,
                     AssistantTurn(
                         response_tracker[Len(response_tracker)].ai_message,
                         CotDisplay(response_tracker)))],
                 loop.errors, TRUE, TRUE, run))

\* main, lines 137-207. initialized is what brain.initialize_agent()
\* returns when it is called: the agent, or None.
main(session_state, initialized, prompt, stream) ==
    Bind(InitHistory(session_state), LAMBDA with_history :
    IF "agent" \notin DOMAIN with_history /\ initialized = "None"
    THEN AfterRun(with_history, <<"Failed to initialize AI agent.">>,
             FALSE, FALSE, NoRun)
    ELSE Bind(Put(with_history, "agent", "agent"), LAMBDA with_agent :
         IF prompt = ""
         THEN AfterRun(with_agent, <<>>, TRUE, TRUE, NoRun)
         ELSE Turn(with_agent, prompt, stream)))

(***************************************************************************)
(* SpecChat: runs of main in one session, after a successful startup.      *)
(* Streamlit runs the script once when the page opens and once more for    *)
(* each prompt submitted through the chat input the last run drew.         *)
(***************************************************************************)
MaxChunks == 2      \* step payloads in one stream

\* The prompts of the session; each is submitted at most once.
Prompts == {"Who directed Heat?", "movies about dreams"}

Asked(chat_history) ==
    {chat_history[i].content :
        i \in {j \in 1..Len(chat_history) : chat_history[j].role = USER}}

SearchCall ==
    [name |-> "semantic-search-tool",
     arguments |-> "{\"search_query\": \"dream\"}"]

\* The step payloads a stream may yield: the agent's steps, a tool's step,
\* and payloads that are not what process_msg_chunks expects.
Chunks ==
    {[agent |-> [messages |-> <<AIMessage("", <<SearchCall>>)>>]],
     [agent |-> [messages |-> <<AIMessage("Inception (2010)", <<>>)>>]],
     [tools |-> [messages |->
                    <<ToolMessage("[\"Inception\"]", "semantic-search-tool")>>]],
     [agent |-> [messages |-> <<>>]],
     [agent |-> [messages |-> <<ToolMessage("[]", "semantic-search-tool")>>]],
     [tools |-> [messages |-> <<[type |-> "str"]>>]],
     [supervisor |-> [messages |-> <<AIMessage("routing", <<>>)>>]]}

\* agent.stream: any chunks, then the end of the stream or an exception of
\* the model call or of a tool (C1, C2).
Streams ==
    {[chunks |-> chunks, raised |-> raised] :
        chunks \in SeqsUpTo(Chunks, MaxChunks),
        raised \in {"none", "ValueError"}}

NoStream == [chunks |-> <<>>, raised |-> "none"]

InitChat ==
    /\ pc = "chat"
    /\ fs_csv = EmptyFs /\ fs_db = EmptyFs /\ fs_index = EmptyFs
    /\ data_objs = <<>>
    /\ boot_error = "none"
    /\ boot_log = <<>>
    /\ last = NoCall
    /\ ds = NoDataset
    /\ st = NoSession

\* One run of the script: the page opens or is redrawn (no prompt), or a
\* prompt is submitted.
Main ==
    /\ pc = "chat"
    /\ \E initialized \in IF "agent" \in DOMAIN st.session_state
                          THEN {"agent"} ELSE {"agent", "None"} :
       \E prompt \in {""} \cup
                     (IF st.chat_input
                      THEN Prompts \ Asked(st.session_state["chat_history"])
                      ELSE {}) :
       \E stream \in IF prompt = "" THEN {NoStream} ELSE Streams :
       \E after \in {main(st.session_state, initialized, prompt, stream)} :
           st' = after
    /\ UNCHANGED <<pc, fs_csv, fs_db, fs_index, data_objs, boot_error,
                   boot_log, last, ds>>

NextChat == Main

SpecChat == InitChat /\ [][NextChat]_vars

(***************************************************************************)
(* Properties of main and process_msg_chunks (SpecChat).                   *)
(***************************************************************************)
ChatHistory ==
    IF "chat_history" \in DOMAIN st.session_state
    THEN st.session_state["chat_history"] ELSE <<>>

\* The last run of main processed a prompt.
TurnDone == st.run.prompt # ""

LastTurn == ChatHistory[Len(ChatHistory)]

\* The traces of the steps recorded in the last run, in stream order.
RECURSIVE TracesOf(_)
TracesOf(results) ==
    IF Len(results) = 0 THEN <<>>
    ELSE (IF Len(Head(results)) = 0 THEN <<>> ELSE <<Head(results)[1].cot>>)
         \o TracesOf(Tail(results))

RECURSIVE JoinedByNewline(_)
JoinedByNewline(traces) ==
    IF Len(traces) = 1 THEN traces[1]
    ELSE traces[1] \o "\n" \o JoinedByNewline(Tail(traces))

\* C12: after a turn whose stream ended normally, with more than one
\* recorded step the assistant turn stores the traces of all recorded
\* steps, in stream order, joined into one text; with exactly one recorded
\* step it stores the placeholder "Nothing to Display."; with none, no
\* assistant turn is appended and an error is displayed.
C12_TraceByStepCount ==
    (TurnDone /\ st.run.raised = "none") =>
        LET traces == TracesOf(st.run.results)
        IN  /\ Len(traces) > 1 =>
                /\ LastTurn.role = ASSISTANT
                /\ LastTurn.cot = JoinedByNewline(traces)
            /\ Len(traces) = 1 =>
                /\ LastTurn.role = ASSISTANT
                /\ LastTurn.cot = "Nothing to Display."
            /\ Len(traces) = 0 =>
                /\ LastTurn = UserTurn(st.run.prompt)
                /\ "No valid AI response received." \in Range(st.errors)

C12_Witness ==
    /\ TurnDone /\ st.run.raised = "none"
    /\ Len(TracesOf(st.run.results)) = 2
    /\ LastTurn.role = ASSISTANT
    /\ Len(ChatHistory) = 4
    /\ ChatHistory[2].cot = "Nothing to Display."

\* The first message of the entry of a payload, <<>> when there is none.
FirstMessage(entry) ==
    IF "messages" \in DOMAIN entry /\ Len(entry["messages"]) > 0
    THEN <<entry["messages"][1]>> ELSE <<>>

\* A payload without an "agent" and without a "tools" entry.
Unrecognised(chunk) == {"agent", "tools"} \cap DOMAIN chunk = {}

\* A payload missing an expected key, or holding a message of the wrong
\* type.
MalformedPayload(chunk) ==
    \/ Unrecognised(chunk)
    \/ /\ "agent" \in DOMAIN chunk
       /\ \/ FirstMessage(chunk["agent"]) = <<>>
          \/ FirstMessage(chunk["agent"])[1].type # "AIMessage"
    \/ /\ "agent" \notin DOMAIN chunk /\ "tools" \in DOMAIN chunk
       /\ \/ FirstMessage(chunk["tools"]) = <<>>
          \/ FirstMessage(chunk["tools"])[1].type # "ToolMessage"

\* A payload with an "agent" entry whose first message is missing or is not
\* an AIMessage, or else with a "tools" entry whose first message is
\* missing or has no content or no name.
RejectedPayload(chunk) ==
    \/ /\ "agent" \in DOMAIN chunk
       /\ \/ FirstMessage(chunk["agent"]) = <<>>
          \/ FirstMessage(chunk["agent"])[1].type # "AIMessage"
    \/ /\ "agent" \notin DOMAIN chunk /\ "tools" \in DOMAIN chunk
       /\ \/ FirstMessage(chunk["tools"]) = <<>>
          \/ {"content", "name"} \ DOMAIN FirstMessage(chunk["tools"])[1] # {}

IsChunkError(message) ==
    LET prefix == "Error processing message chunk: "
    IN  Len(message) >= Len(prefix)
        /\ SubSeq(message, 1, Len(prefix)) = prefix

ChunkErrors == Len(SelectSeq(st.errors, IsChunkError))

\* The positions in the stream of the last run of the payloads that are P.
PositionsOf(P(_)) == {i \in 1..Len(st.run.chunks) : P(st.run.chunks[i])}

\* C13 as stated: every malformed payload, a payload without the expected
\* keys included, is skipped with one displayed error; nothing is recorded
\* for it and every payload of the stream is processed.
C13_MalformedPayloadReported ==
    TurnDone =>
        /\ Len(st.run.results) = Len(st.run.chunks)
        /\ \A i \in PositionsOf(MalformedPayload) : st.run.results[i] = <<>>
        /\ ChunkErrors = Cardinality(PositionsOf(MalformedPayload))

\* C13 (amended): a payload with an "agent" or "tools" entry whose first
\* message is missing or unusable is skipped with one displayed error; a
\* payload with neither entry is skipped without any error; nothing is
\* recorded for either and every payload of the stream is processed.
C13_MalformedPayloadSkipped ==
    TurnDone =>
        /\ Len(st.run.results) = Len(st.run.chunks)
        /\ \A i \in PositionsOf(RejectedPayload) : st.run.results[i] = <<>>
        /\ \A i \in PositionsOf(Unrecognised) : st.run.results[i] = <<>>
        /\ ChunkErrors = Cardinality(PositionsOf(RejectedPayload))
        /\ Len(st.session_state["response_tracker"]) =
               Len(st.run.chunks)
               - Cardinality(PositionsOf(RejectedPayload))
               - Cardinality(PositionsOf(Unrecognised))

\* A malformed payload first, a well-formed one after it, recorded.
C13_Witness ==
    /\ TurnDone
    /\ Len(st.run.chunks) = 2
    /\ RejectedPayload(st.run.chunks[1])
    /\ st.run.results[1] = <<>>
    /\ st.run.results[2] # <<>>
    /\ ChunkErrors = 1

\* After a run, the next prompt can be submitted and processed.
CanGoOn == st.chat_input /\ "agent" \in DOMAIN st.session_state

\* C15 as stated: a turn in which the stream, a tool or the processing of a
\* step raised shows an error and ends with the user's turn last in the
\* history, no assistant turn appended, and the session can go on.
C15_ExceptionEndsTurn ==
    (TurnDone /\ (st.run.raised # "none"
                  \/ PositionsOf(RejectedPayload) # {})) =>
        /\ Len(st.errors) > 0
        /\ LastTurn = UserTurn(st.run.prompt)
        /\ CanGoOn

\* C15 (amended): a turn whose stream raised (the model call or a tool)
\* shows an error and ends with the user's turn last in the history, no
\* assistant turn appended; an exception in the processing of a step shows
\* an error and skips that step only; in both cases nothing leaves main
\* and the session can go on.
C15_StreamExceptionEndsTurn ==
    TurnDone =>
        /\ st.run.raised # "none" =>
              /\ Len(st.errors) > 0
              /\ st.errors[Len(st.errors)] =
                     "Error while processing AI response: " \o st.run.raised
              /\ LastTurn = UserTurn(st.run.prompt)
              /\ st.rendered = <<ChatHistory>>
        /\ PositionsOf(RejectedPayload) # {} => ChunkErrors > 0
        /\ CanGoOn

\* The stream raised after a step had been recorded, in the second turn.
C15_Witness ==
    /\ TurnDone
    /\ st.run.raised # "none"
    /\ Len(st.session_state["response_tracker"]) > 0
    /\ Len(ChatHistory) = 3
    /\ ChatHistory[2].role = ASSISTANT

Roles(chat_history, role) ==
    {i \in 1..Len(chat_history) : chat_history[i].role = role}

\* C17: a run of main keeps the turns the history has, in place; a run
\* without a prompt adds nothing; a run with a prompt adds the user turn
\* and then at most one assistant turn; so every assistant turn comes
\* right after a user turn and there are no more assistant than user turns.
C17_HistoryAppendOnly ==
    [][pc = "chat" =>
        LET old == ChatHistory
            new == st'.session_state["chat_history"]
            prompt == st'.run.prompt
        IN  /\ Len(new) >= Len(old)
            /\ SubSeq(new, 1, Len(old)) = old
            /\ prompt = "" => new = old
            /\ prompt # "" =>
                  /\ Len(new) \in {Len(old) + 1, Len(old) + 2}
                  /\ new[Len(old) + 1] = UserTurn(prompt)
                  /\ Len(new) = Len(old) + 2 => new[Len(new)].role = ASSISTANT
            /\ \A i \in Roles(new, ASSISTANT) :
                  i > 1 /\ new[i - 1].role = USER
            /\ Cardinality(Roles(new, ASSISTANT))
                   <= Cardinality(Roles(new, USER))]_vars

C17_Witness ==
    /\ Len(ChatHistory) = 3
    /\ ChatHistory[1].role = USER
    /\ ChatHistory[2].role = USER
    /\ ChatHistory[3].role = ASSISTANT
    /\ ~TurnDone

====
